---- MODULE Spec2Model ----
(***************************************************************************)
(* ConnectTwitter (src/connect.py): the rate-limit aware request pipeline  *)
(* of an httpx.AsyncClient with a request hook (check_rate_limit), two     *)
(* response hooks (status_errors, set_rate_limit), the pagination driver   *)
(* get_data and the cached id lookup get_id.                               *)
(*                                                                         *)
(* Each task of the event loop runs one logical operation.  The upstream   *)
(* API is the environment: every response (status, rate-limit headers,     *)
(* body) and every transport failure is a nondeterministic input.          *)
(***************************************************************************)
EXTENDS Integers, Sequences, FiniteSets, TLC

\* ----------------------------------------------------------------- bounds
MaxRequests == 3
MaxTime == 18
TickLength == 6
MaxConcurrentRequests == 2

\* ------------------------------------------------------ program constants
SafetyMargin == 10
maxsize == 32
QuotaExceeded == 429
ServiceUnavailable == 503
Unrestricted == 1000000

\* ------------------------------------------------------------ input sets
Tasks == {1, 2}
Templates == {"followers", "owned_lists"}
ItemIds == {"7"}
Users == {"alice", "bob"}
FieldArgs == {"user.fields=id", "user.fields=name"}
Statuses == {200, QuotaExceeded, 500}
Tokens == {"a", "b"}
NoneToken == "<None>"
\* what the body holds at meta.next_token
NextTokenValues == Tokens \cup {"", "<null>", "<absent>"}
\* x-rate-limit-remaining and x-rate-limit-reset as the responses carry them
RemainingValues == {0, 1}
ResetValues == {0, 1, 2}
Records == [id : {1, 2}]
DataValues == {<<>>} \cup {<<r>> : r \in Records}
Bodies ==
    [json : {FALSE}, has_data : {FALSE}, data : {<<>>}, next_token : {"<absent>"}]
    \cup [json : {TRUE}, has_data : {FALSE}, data : {<<>>}, next_token : NextTokenValues]
    \cup [json : {TRUE}, has_data : {TRUE}, data : DataValues, next_token : NextTokenValues]
Responses ==
    [status_code : Statuses, remaining : RemainingValues, reset : ResetValues, body : Bodies]
Max(a, b) == IF a >= b THEN a ELSE b

\* ------------------------------------------------------------ exceptions
NoUrl == [template |-> "", arg |-> "", fields |-> ""]
NoDetail == [kind |-> "none", code |-> 0, remaining |-> 0, url |-> NoUrl]
Returned(value, id) ==
    [type |-> "return", status_code |-> 0, detail |-> NoDetail, value |-> value, id |-> id]
Raised(type, status_code, detail) ==
    [type |-> type, status_code |-> status_code, detail |-> detail, value |-> <<>>, id |-> 0]
HTTPException(status_code, detail) == Raised("HTTPException", status_code, detail)
Nothing == Raised("none", 0, NoDetail)

\* ------------------------------------------------- RateLimit (rate_limit)
\* One bucket per (endpoint template, HTTP method); path parameters are
\* normalised out of the key.
Keys == (Templates \cup {"by"}) \X {"GET"}
key_of(url, method) == <<url.template, method>>
Unseen == [seen |-> FALSE, remaining |-> 0, reset |-> 0]
get_limit(tracker, url, method, time) ==
    IF tracker[key_of(url, method)].seen
    THEN [remaining |-> tracker[key_of(url, method)].remaining,
          reset |-> tracker[key_of(url, method)].reset]
    ELSE [remaining |-> Unrestricted, reset |-> time]
set_limit(tracker, url, headers, method) ==
    [tracker EXCEPT ![key_of(url, method)] =
        [seen |-> TRUE, remaining |-> headers.remaining, reset |-> headers.reset]]

\* ------------------------------------------------------- pure functions
\* raise_for_status that lets server errors through
raise_for_status_client_errors_only(response) ==
    ~(200 <= response.status_code /\ response.status_code <= 299)
        /\ response.status_code < 500

\* httpx.Response.raise_for_status: TRUE when it raises HTTPStatusError
raise_for_status(response) ==
    ~(200 <= response.status_code /\ response.status_code <= 299)

\* status_errors without the 429 branch
status_errors_no_quota_branch(response, url) ==
    IF raise_for_status(response)
    THEN HTTPException(response.status_code,
             [kind |-> "path", code |-> 0, remaining |-> 0, url |-> url])
    ELSE Nothing

\* response hook 1: the exception it raises, or Nothing
status_errors(response, url) ==
    IF raise_for_status(response)
    THEN IF response.status_code = QuotaExceeded
         THEN HTTPException(QuotaExceeded,
                  [kind |-> "status_and_remaining", code |-> response.status_code,
                   remaining |-> response.remaining, url |-> NoUrl])
         ELSE HTTPException(response.status_code,
                  [kind |-> "path", code |-> 0, remaining |-> 0, url |-> url])
    ELSE Nothing

\* `if (next_token := ...) is not None`: the empty string counts as a token
Truthy_unless_none(next_token) == next_token \notin {"<null>", "<absent>"}

\* `if next_token := results.get('meta', {}).get('next_token')`: None, null
\* and the empty string are falsy
Truthy(next_token) == next_token \notin {"", "<null>", "<absent>"}

\* process_json without its `except JSONDecodeError`
process_json_decode_error_uncaught(response) ==
    IF ~response.body.json
    THEN [raised |-> Raised("JSONDecodeError", 0, NoDetail),
          pagination |-> NoneToken, data |-> <<>>]
    ELSE IF ~response.body.has_data
    THEN [raised |-> Raised("KeyError", 0, NoDetail),
          pagination |-> NoneToken, data |-> <<>>]
    ELSE [raised |-> Nothing,
          pagination |-> IF Truthy(response.body.next_token)
                         THEN response.body.next_token ELSE NoneToken,
          data |-> response.body.data]

\* (raised, pagination, data): the try block covers response.json() and the
\* token lookup; results['data'] is evaluated after it
process_json(response) ==
    IF ~response.body.json
    THEN [raised |-> HTTPException(response.status_code,
                        [kind |-> "JSONDecodeError", code |-> 0, remaining |-> 0,
                         url |-> NoUrl]),
          pagination |-> NoneToken, data |-> <<>>]
    ELSE IF ~response.body.has_data
    THEN [raised |-> Raised("KeyError", 0, NoDetail),
          pagination |-> NoneToken, data |-> <<>>]
    ELSE [raised |-> Nothing,
          pagination |-> IF Truthy(response.body.next_token)
                         THEN response.body.next_token ELSE NoneToken,
          data |-> response.body.data]

\* the test of line 88 as a truth test of a limit object that is never falsy
rate_limited_whenever_limit_known(limit) == limit.remaining >= 0

\* the test of line 88 as `remaining <= 1`
rate_limited_off_by_one(limit) == limit.remaining <= 1

\* line 89 without the safety margin
sleep_time_no_margin(limit, time) == Max(limit.reset - time, 0)

\* check_rate_limit line 88
rate_limited(limit) == limit.remaining = 0

\* check_rate_limit line 89
sleep_time(limit, time) == Max(limit.reset - time, 0) + SafetyMargin

\* ---------------------------------------------------------------- state
VARIABLES
    pc,        \* task -> "idle" | "send" | "sleeping" | "awaiting" | "joined" | "done" | "failed"
    op,        \* task -> the operation it runs: kind and url
    line,      \* task -> the client.get call site it is in (136, 145, 154)
    request,   \* task -> the pagination_token parameter of its current request
    results,   \* task -> get_data's result buffer
    outcome,   \* task -> what the operation returned or raised
    wake,      \* task -> when its asyncio.sleep ends
    limits,    \* self.rate_limit
    cache,     \* alru_cache of get_id, least recently used first
    now,       \* time.time()
    sent,      \* history: task -> the token carried by each request it issued
    pages,     \* history: task -> the bodies handed to process_json
    last,      \* history: the response or transport failure seen last, and by which task
    zero_seen  \* history: some response reported remaining = 0

vars == <<pc, op, line, request, results, outcome, wake, limits, cache, now,
          sent, pages, last, zero_seen>>

NoOp == [kind |-> "none", url |-> NoUrl, owner |-> 0]

NoEvent == [task |-> 0, event |-> "none", status_code |-> 0, remaining |-> 0, reset |-> 0]

\* the tasks of `running` each run one operation
InitWith(running) ==
    /\ pc = [t \in Tasks |-> IF t \in running THEN "idle" ELSE "unused"]
    /\ op = [t \in Tasks |-> NoOp]
    /\ line = [t \in Tasks |-> 0]
    /\ request = [t \in Tasks |-> NoneToken]
    /\ results = [t \in Tasks |-> <<>>]
    /\ outcome = [t \in Tasks |-> Nothing]
    /\ wake = [t \in Tasks |-> 0]
    /\ limits = [k \in Keys |-> Unseen]
    /\ cache = <<>>
    /\ now = 0
    /\ sent = [t \in Tasks |-> <<>>]
    /\ pages = [t \in Tasks |-> <<>>]
    /\ last = NoEvent
    /\ zero_seen = FALSE

\* ----------------------------------------------------- alru_cache(get_id)
cache_keys(c) == {c[i].key : i \in 1..Len(c)}
cache_item(c, key) == c[CHOOSE i \in 1..Len(c) : c[i].key = key]
cache_without(c, key) == SelectSeq(c, LAMBDA item : item.key # key)
\* a hit moves the entry to the most recently used end
cache_hit(c, key) == Append(cache_without(c, key), cache_item(c, key))
\* a miss stores the pending future and drops the oldest entry over maxsize
cache_miss(c, key, t) ==
    LET grown == Append(c, [key |-> key, done |-> FALSE, owner |-> t, id |-> 0])
    IN  IF Len(grown) > maxsize THEN Tail(grown) ELSE grown
\* a done callback that keeps no result
task_done_callback_forgets(c, key, out) == cache_without(c, key)

\* the done callback of the wrapped coroutine: a result is kept, an
\* exception removes the entry
task_done_callback(c, key, out) ==
    IF key \notin cache_keys(c) THEN c
    ELSE IF out.type = "return"
    THEN [i \in 1..Len(c) |->
             IF c[i].key = key THEN [c[i] EXCEPT !.done = TRUE, !.id = out.id] ELSE c[i]]
    ELSE cache_without(c, key)
make_key(url) == <<url.arg, url.fields>>

\* -------------------------------------------------------------- actions
\* the operation of task t ends: it returns or raises `out`
Finish(t, out) ==
    /\ pc' = [pc EXCEPT ![t] = IF out.type = "return" THEN "done" ELSE "failed"]
    /\ outcome' = [outcome EXCEPT ![t] = out]
    /\ cache' = IF op[t].kind = "get_id"
                THEN task_done_callback(cache, make_key(op[t].url), out)
                ELSE cache

\* get_data with `paginate` kept on the client object instead of in a local
call_get_data_token_on_client(t, template, item_id) ==
    /\ pc[t] = "idle"
    /\ op' = [op EXCEPT ![t] =
                 [kind |-> "get_data",
                  url |-> [template |-> template, arg |-> item_id, fields |-> ""],
                  owner |-> t]]
    /\ results' = [results EXCEPT ![t] = <<>>]
    /\ \E u \in Tasks \ {t} : request' = [request EXCEPT ![t] = request[u]]
    /\ line' = [line EXCEPT ![t] = 145]
    /\ pc' = [pc EXCEPT ![t] = "send"]
    /\ UNCHANGED <<outcome, wake, limits, cache, now, sent, pages, last, zero_seen>>

\* get_lists_for_id -> get_data, up to the first client.get (lines 161-145)
call_get_data(t, template, item_id) ==
    /\ pc[t] = "idle"
    /\ op' = [op EXCEPT ![t] =
                 [kind |-> "get_data",
                  url |-> [template |-> template, arg |-> item_id, fields |-> ""],
                  owner |-> t]]
    /\ results' = [results EXCEPT ![t] = <<>>]
    /\ request' = [request EXCEPT ![t] = NoneToken]
    /\ line' = [line EXCEPT ![t] = 145]
    /\ pc' = [pc EXCEPT ![t] = "send"]
    /\ UNCHANGED <<outcome, wake, limits, cache, now, sent, pages, last, zero_seen>>

\* get_id through its alru_cache wrapper, up to client.get (lines 127-136)
call_get_id(t, user, fields) ==
    /\ pc[t] = "idle"
    /\ LET url == [template |-> "by", arg |-> user, fields |-> fields]
           key == make_key(url)
       IN  IF key \in cache_keys(cache)
           THEN /\ cache' = cache_hit(cache, key)
                /\ op' = [op EXCEPT ![t] =
                             [kind |-> "get_id", url |-> url,
                              owner |-> cache_item(cache, key).owner]]
                /\ IF cache_item(cache, key).done
                   THEN /\ pc' = [pc EXCEPT ![t] = "done"]
                        /\ outcome' = [outcome EXCEPT ![t] =
                                          Returned(<<>>, cache_item(cache, key).id)]
                   ELSE /\ pc' = [pc EXCEPT ![t] = "joined"]
                        /\ UNCHANGED outcome
                /\ UNCHANGED <<line, request>>
           ELSE /\ cache' = cache_miss(cache, key, t)
                /\ op' = [op EXCEPT ![t] = [kind |-> "get_id", url |-> url, owner |-> t]]
                /\ request' = [request EXCEPT ![t] = NoneToken]
                /\ line' = [line EXCEPT ![t] = 136]
                /\ pc' = [pc EXCEPT ![t] = "send"]
                /\ UNCHANGED outcome
    /\ UNCHANGED <<results, wake, limits, now, sent, pages, last, zero_seen>>

\* a caller that found the lookup pending gets the owner's result or exception
await_shared_future(t) ==
    /\ pc[t] = "joined"
    /\ pc[op[t].owner] \in {"done", "failed"}
    /\ pc' = [pc EXCEPT ![t] = pc[op[t].owner]]
    /\ outcome' = [outcome EXCEPT ![t] = outcome[op[t].owner]]
    /\ UNCHANGED <<op, line, request, results, wake, limits, cache, now, sent, pages,
                   last, zero_seen>>

\* the request leaves the client once the request hook has returned
Dispatch(t) ==
    /\ pc' = [pc EXCEPT ![t] = "awaiting"]
    /\ sent' = [sent EXCEPT ![t] = Append(@, request[t])]

\* a request hook that throttles on any exhausted bucket, not the request's own
check_rate_limit_any_bucket(t) ==
    /\ pc[t] = "send"
    /\ LET own == get_limit(limits, op[t].url, "GET", now)
           exhausted == {k \in Keys : limits[k].seen /\ limits[k].remaining = 0}
       IN  IF exhausted # {}
           THEN /\ pc' = [pc EXCEPT ![t] = "sleeping"]
                /\ wake' = [wake EXCEPT ![t] = now + sleep_time(own, now)]
                /\ UNCHANGED sent
           ELSE /\ Dispatch(t)
                /\ UNCHANGED wake
    /\ UNCHANGED <<op, line, request, results, outcome, limits, cache, now, pages,
                   last, zero_seen>>

\* request hook (lines 86-91)
check_rate_limit(t) ==
    /\ pc[t] = "send"
    /\ LET limit == get_limit(limits, op[t].url, "GET", now)
       IN  IF rate_limited(limit)
           THEN /\ pc' = [pc EXCEPT ![t] = "sleeping"]
                /\ wake' = [wake EXCEPT ![t] = now + sleep_time(limit, now)]
                /\ UNCHANGED sent
           ELSE /\ Dispatch(t)
                /\ UNCHANGED wake
    /\ UNCHANGED <<op, line, request, results, outcome, limits, cache, now, pages,
                   last, zero_seen>>

\* check_rate_limit as a loop: the tracker is read again after the sleep
sleep_elapsed_rechecks(t) ==
    /\ pc[t] = "sleeping"
    /\ now >= wake[t]
    /\ pc' = [pc EXCEPT ![t] = "send"]
    /\ wake' = [wake EXCEPT ![t] = 0]
    /\ UNCHANGED <<op, line, request, results, outcome, limits, cache, now, sent, pages,
                   last, zero_seen>>

\* asyncio.sleep(s_time) returns (line 91): the request proceeds
sleep_elapsed(t) ==
    /\ pc[t] = "sleeping"
    /\ now >= wake[t]
    /\ Dispatch(t)
    /\ wake' = [wake EXCEPT ![t] = 0]
    /\ UNCHANGED <<op, line, request, results, outcome, limits, cache, now, pages,
                   last, zero_seen>>

\* a RequestError answered by sending the request again
request_error_retried(t) ==
    /\ pc[t] = "awaiting"
    /\ pc' = [pc EXCEPT ![t] = "send"]
    /\ last' = [NoEvent EXCEPT !.task = t, !.event = "RequestError"]
    /\ UNCHANGED <<op, line, request, results, outcome, wake, limits, cache, now, sent,
                   pages, zero_seen>>

\* client.get raises httpx.RequestError (lines 137-138, 146-147, 155-156)
request_error(t) ==
    /\ pc[t] = "awaiting"
    /\ Finish(t, HTTPException(ServiceUnavailable,
                     [kind |-> "RequestError", code |-> 0, remaining |-> 0, url |-> NoUrl]))
    /\ last' = [NoEvent EXCEPT !.task = t, !.event = "RequestError"]
    /\ UNCHANGED <<op, line, request, results, wake, limits, now, sent, pages, zero_seen>>

\* a cancellation caught by handing back the pages collected so far
cancel_returns_collected(t) ==
    /\ pc[t] \in {"sleeping", "awaiting"}
    /\ Finish(t, Returned(results[t], 0))
    /\ last' = [NoEvent EXCEPT !.task = t, !.event = "cancelled"]
    /\ UNCHANGED <<op, line, request, results, wake, limits, now, sent, pages, zero_seen>>

\* the task is cancelled at `await asyncio.sleep` (line 91) or at
\* `await self.client.get` (lines 136, 145, 154): CancelledError is raised
\* there, and `except httpx.RequestError` does not catch it
cancel(t) ==
    /\ pc[t] \in {"sleeping", "awaiting"}
    /\ Finish(t, Raised("CancelledError", 0, NoDetail))
    /\ last' = [NoEvent EXCEPT !.task = t, !.event = "cancelled"]
    /\ UNCHANGED <<op, line, request, results, wake, limits, now, sent, pages, zero_seen>>

\* response hooks without set_rate_limit
response_hooks_refresh_skipped(tracker, response, url) ==
    [raised |-> status_errors(response, url), limits |-> tracker]

\* the response hooks in their registered order (lines 70-71): httpx awaits
\* them one after the other, so a hook that raises ends the sequence
response_hooks(tracker, response, url) ==
    LET e == status_errors(response, url)
    IN  [raised |-> e,
         limits |-> IF e.type = "none"
                    THEN set_limit(tracker, url, response, "GET")
                    ELSE tracker]

\* get_data handing back its buffer when a page fails to decode
get_data_after_partial_on_error(ln, buffer, response) ==
    LET pj == process_json(response)
    IN  IF pj.raised.type # "none"
        THEN [outcome |-> Returned(buffer, 0), results |-> buffer, paginate |-> NoneToken]
        ELSE IF ln = 145 /\ pj.pagination = NoneToken
        THEN [outcome |-> Returned(pj.data, 0), results |-> buffer, paginate |-> NoneToken]
        ELSE IF pj.pagination # NoneToken
        THEN [outcome |-> Nothing, results |-> buffer \o pj.data, paginate |-> pj.pagination]
        ELSE [outcome |-> Returned(buffer \o pj.data, 0), results |-> buffer \o pj.data,
              paginate |-> NoneToken]

\* get_data without the results.extend(result) of line 151
get_data_after_first_page_dropped(ln, buffer, response) ==
    LET pj == process_json(response)
    IN  IF pj.raised.type # "none"
        THEN [outcome |-> pj.raised, results |-> buffer, paginate |-> NoneToken]
        ELSE IF ln = 145 /\ pj.pagination = NoneToken
        THEN [outcome |-> Returned(pj.data, 0), results |-> buffer, paginate |-> NoneToken]
        ELSE IF ln = 145
        THEN [outcome |-> Nothing, results |-> buffer, paginate |-> pj.pagination]
        ELSE IF pj.pagination # NoneToken
        THEN [outcome |-> Nothing, results |-> buffer \o pj.data, paginate |-> pj.pagination]
        ELSE [outcome |-> Returned(buffer \o pj.data, 0), results |-> buffer \o pj.data,
              paginate |-> NoneToken]

\* get_data with a ceiling of two pages
get_data_after_two_pages_at_most(ln, buffer, response) ==
    LET pj == process_json(response)
    IN  IF pj.raised.type # "none"
        THEN [outcome |-> pj.raised, results |-> buffer, paginate |-> NoneToken]
        ELSE IF ln = 145 /\ pj.pagination = NoneToken
        THEN [outcome |-> Returned(pj.data, 0), results |-> buffer, paginate |-> NoneToken]
        ELSE IF ln = 145
        THEN [outcome |-> Nothing, results |-> buffer \o pj.data, paginate |-> pj.pagination]
        ELSE [outcome |-> Returned(buffer \o pj.data, 0), results |-> buffer \o pj.data,
              paginate |-> NoneToken]

\* get_data returning the last page instead of the buffer
get_data_after_last_page_only(ln, buffer, response) ==
    LET pj == process_json(response)
    IN  IF pj.raised.type # "none"
        THEN [outcome |-> pj.raised, results |-> buffer, paginate |-> NoneToken]
        ELSE IF pj.pagination # NoneToken
        THEN [outcome |-> Nothing, results |-> buffer \o pj.data, paginate |-> pj.pagination]
        ELSE [outcome |-> Returned(pj.data, 0), results |-> buffer \o pj.data,
              paginate |-> NoneToken]

\* get_data after client.get returned at call site ln with `buffer` as its
\* results list (lines 148-159): what it raises or returns (outcome Nothing:
\* it goes round the loop), its results list and its paginate
get_data_after(ln, buffer, response) ==
    LET pj == process_json(response)
    IN  IF pj.raised.type # "none"
        THEN [outcome |-> pj.raised, results |-> buffer, paginate |-> NoneToken]
        ELSE IF ln = 145 /\ pj.pagination = NoneToken
        THEN [outcome |-> Returned(pj.data, 0), results |-> buffer, paginate |-> NoneToken]
        ELSE IF pj.pagination # NoneToken
        THEN [outcome |-> Nothing, results |-> buffer \o pj.data, paginate |-> pj.pagination]
        ELSE [outcome |-> Returned(buffer \o pj.data, 0), results |-> buffer \o pj.data,
              paginate |-> NoneToken]

get_data_continue(t, response) ==
    LET after == get_data_after(line[t], results[t], response)
    IN  /\ results' = [results EXCEPT ![t] = after.results]
        /\ IF after.outcome.type = "none"
           THEN /\ request' = [request EXCEPT ![t] = after.paginate]
                /\ line' = [line EXCEPT ![t] = 154]
                /\ pc' = [pc EXCEPT ![t] = "send"]
                /\ UNCHANGED <<outcome, cache>>
           ELSE /\ Finish(t, after.outcome)
                /\ UNCHANGED <<request, line>>

\* get_id after client.get returned (lines 139-140)
get_id_continue(t, response) ==
    LET pj == process_json(response)
    IN  /\ IF pj.raised.type # "none"
           THEN Finish(t, pj.raised)
           ELSE IF Len(pj.data) = 0
           THEN Finish(t, Raised("IndexError", 0, NoDetail))
           ELSE Finish(t, Returned(<<>>, pj.data[1].id))
        /\ UNCHANGED <<results, request, line>>

\* a response arrives for the request of task t
receive(t, response) ==
    /\ pc[t] = "awaiting"
    /\ last' = [task |-> t, event |-> "response", status_code |-> response.status_code,
                remaining |-> response.remaining, reset |-> response.reset]
    /\ zero_seen' = (zero_seen \/ response.remaining = 0)
    /\ LET h == response_hooks(limits, response, op[t].url)
       IN  /\ limits' = h.limits
           /\ IF h.raised.type # "none"
              THEN /\ Finish(t, h.raised)
                   /\ UNCHANGED <<results, request, line, pages>>
              ELSE /\ pages' = [pages EXCEPT ![t] = Append(@, response.body)]
                   /\ IF op[t].kind = "get_data"
                      THEN get_data_continue(t, response)
                      ELSE get_id_continue(t, response)
    /\ UNCHANGED <<op, wake, now, sent>>

\* time.time() advances
Tick(step) ==
    /\ now + step <= MaxTime
    /\ now' = now + step
    /\ UNCHANGED <<pc, op, line, request, results, outcome, wake, limits, cache, sent,
                   pages, last, zero_seen>>

WellFormedBody(body) == body.json /\ body.has_data

\* one logical operation, every response the upstream can give
Init == InitWith({1})

Next ==
    \/ \E t \in Tasks, template \in Templates, item_id \in ItemIds :
           call_get_data(t, template, item_id)
    \/ \E t \in Tasks, user \in Users, fields \in FieldArgs : call_get_id(t, user, fields)
    \/ \E t \in Tasks : Len(sent[t]) < MaxRequests /\ check_rate_limit(t)
    \/ \E t \in Tasks : sleep_elapsed(t)
    \/ \E t \in Tasks : request_error(t)
    \/ \E t \in Tasks, response \in Responses : receive(t, response)
    \/ Tick(TickLength)

Spec == Init /\ [][Next]_vars

\* one logical operation whose task may be cancelled at its await points
NextCancel ==
    \/ \E t \in Tasks, template \in Templates, item_id \in ItemIds :
           call_get_data(t, template, item_id)
    \/ \E t \in Tasks, user \in Users, fields \in FieldArgs : call_get_id(t, user, fields)
    \/ \E t \in Tasks : Len(sent[t]) < MaxRequests /\ check_rate_limit(t)
    \/ \E t \in Tasks : sleep_elapsed(t)
    \/ \E t \in Tasks : request_error(t)
    \/ \E t \in Tasks, response \in Responses : receive(t, response)
    \/ \E t \in Tasks : cancel(t)
    \/ Tick(TickLength)

SpecCancel == Init /\ [][NextCancel]_vars

\* two callers of the cached id lookup, interleaved
LookupResponses ==
    {r \in Responses : r.body.next_token = "<absent>" /\ r.reset \in {0, 2}}

InitLookup == InitWith(Tasks)

NextLookup ==
    \/ \E t \in Tasks, user \in Users, fields \in FieldArgs : call_get_id(t, user, fields)
    \/ \E t \in Tasks : await_shared_future(t)
    \/ \E t \in Tasks : Len(sent[t]) < MaxRequests /\ check_rate_limit(t)
    \/ \E t \in Tasks : sleep_elapsed(t)
    \/ \E t \in Tasks : request_error(t)
    \/ \E t \in Tasks, response \in LookupResponses : receive(t, response)
    \/ Tick(TickLength)

SpecLookup == InitLookup /\ [][NextLookup]_vars

\* two paginated operations that interleave, over a smaller upstream alphabet
ConcurrentResponses ==
    {r \in Responses :
        /\ r.status_code \in {200, QuotaExceeded}
        /\ r.reset = 2
        /\ WellFormedBody(r.body)
        /\ r.body.data = <<[id |-> 1]>>
        /\ r.body.next_token \in {"a", "b", "<absent>"}}

InitConcurrent == InitWith(Tasks)

NextConcurrent ==
    \/ \E t \in Tasks, template \in Templates, item_id \in ItemIds :
           call_get_data(t, template, item_id)
    \/ \E t \in Tasks : Len(sent[t]) < MaxConcurrentRequests /\ check_rate_limit(t)
    \/ \E t \in Tasks : sleep_elapsed(t)
    \/ \E t \in Tasks : request_error(t)
    \/ \E t \in Tasks, response \in ConcurrentResponses : receive(t, response)
    \/ Tick(TickLength)

SpecConcurrent == InitConcurrent /\ [][NextConcurrent]_vars

\* one paginated operation against an upstream that never exhausts the
\* quota; the event loop runs a ready coroutine, and every request is
\* answered or fails (httpx times a silent connection out)
PagingResponses == {r \in Responses : r.remaining = 1 /\ r.reset = 0}

NextPaging ==
    \/ \E t \in Tasks, template \in Templates, item_id \in ItemIds :
           call_get_data(t, template, item_id)
    \/ \E t \in Tasks : Len(sent[t]) < MaxRequests /\ check_rate_limit(t)
    \/ \E t \in Tasks : request_error(t)
    \/ \E t \in Tasks, response \in PagingResponses : receive(t, response)

SpecPaging ==
    /\ Init
    /\ [][NextPaging]_vars
    /\ \A t \in Tasks :
           /\ WF_vars(\E template \in Templates, item_id \in ItemIds :
                          call_get_data(t, template, item_id))
           /\ WF_vars(Len(sent[t]) < MaxRequests /\ check_rate_limit(t))
           /\ WF_vars(request_error(t) \/ \E response \in PagingResponses :
                                             receive(t, response))


\* ------------------------------------------------------------ properties
RECURSIVE Concat(_)
Concat(seqs) == IF seqs = <<>> THEN <<>> ELSE Head(seqs) \o Concat(Tail(seqs))

PageData(t) == [i \in 1..Len(pages[t]) |-> pages[t][i].data]
WellFormed(body) == body.json /\ body.has_data
\* pages[t] is P1..Pk: all decodable, all but the last carrying a token
CompleteSequence(t) ==
    /\ Len(pages[t]) >= 1
    /\ \A i \in 1..Len(pages[t]) : WellFormed(pages[t][i])
    /\ \A i \in 1..(Len(pages[t]) - 1) : pages[t][i].next_token \in Tokens
    /\ pages[t][Len(pages[t])].next_token \notin Tokens

\* C1: served pages P1..Pk of which only Pk carries no continuation token,
\* get_data returns P1.data + ... + Pk.data in that order after exactly k
\* requests, the first without pagination_token and request i+1 with the
\* token of page i.
C1_PaginationAggregates ==
    \A t \in Tasks :
        (op[t].kind = "get_data" /\ CompleteSequence(t)) =>
            /\ pc[t] = "done"
            /\ outcome[t] = Returned(Concat(PageData(t)), 0)
            /\ Len(sent[t]) = Len(pages[t])
            /\ sent[t][1] = NoneToken
            /\ \A i \in 1..(Len(pages[t]) - 1) : sent[t][i + 1] = pages[t][i].next_token

C1_Witness ==
    \E t \in Tasks :
        /\ op[t].kind = "get_data"
        /\ pc[t] = "done"
        /\ Len(pages[t]) = 3
        /\ pages[t][1].next_token = "a"
        /\ pages[t][2].next_token = "b"
        /\ outcome[t].value = <<[id |-> 1], [id |-> 2], [id |-> 1]>>

\* C2: the tracker holds the rate-limit headers of every response received,
\* whatever its status code: status_errors raising does not skip the refresh.
C2_LimitRefreshedOnEveryResponse ==
    last.event = "response" =>
        limits[key_of(op[last.task].url, "GET")] =
            [seen |-> TRUE, remaining |-> last.remaining, reset |-> last.reset]


\* C3: a request whose key has remaining = 0 is suspended for
\* max(resetAt - now, 0) + 10 before it is dispatched: at least T + 10 when
\* resetAt is T in the future, exactly 10 when resetAt has passed.
C3_SuspendedUntilResetPlusMargin ==
    [][\A t \in Tasks :
        LET limit == limits[key_of(op[t].url, "GET")]
        IN  /\ (pc[t] = "send" /\ pc'[t] # "send" /\ limit.seen /\ limit.remaining = 0) =>
                   /\ pc'[t] = "sleeping"
                   /\ sent'[t] = sent[t]
                   /\ wake'[t] - now = Max(limit.reset - now, 0) + 10
                   /\ (limit.reset > now => wake'[t] - now >= (limit.reset - now) + 10)
                   /\ (limit.reset <= now => wake'[t] - now = 10)
            /\ (pc[t] = "sleeping" /\ pc'[t] # "sleeping") =>
                   /\ now >= wake[t]
                   /\ pc'[t] = "awaiting"
                   /\ sent'[t] = Append(sent[t], request[t])]_vars

\* a request suspended with resetAt 2 ahead of the check, its wait over
C3_Witness ==
    \E t \in Tasks :
        /\ pc[t] = "sleeping"
        /\ limits[key_of(op[t].url, "GET")].remaining = 0
        /\ limits[key_of(op[t].url, "GET")].reset = 2
        /\ wake[t] = 12
        /\ now >= wake[t]

\* C4: as long as every response received reported remaining > 0, the
\* request hook suspends no request: each is dispatched in the step that
\* checks it.
C4_NoDelayWhileRemainingPositive ==
    [][\A t \in Tasks :
        (~zero_seen /\ pc[t] = "send" /\ pc'[t] # "send") =>
            /\ pc'[t] = "awaiting"
            /\ sent'[t] = Append(sent[t], request[t])
            /\ now' = now]_vars

C4_Witness ==
    \E t \in Tasks :
        /\ ~zero_seen
        /\ last.event = "response"
        /\ Len(sent[t]) = 3
        /\ pc[t] = "awaiting"

\* C5: a response with status 429 makes the operation fail with
\* HTTPException(429) whose detail holds the status code and the
\* x-rate-limit-remaining header; its body is not decoded.
C5_QuotaExceededOn429 ==
    (last.event = "response" /\ last.status_code = 429) =>
        /\ pc[last.task] = "failed"
        /\ outcome[last.task].type = "HTTPException"
        /\ outcome[last.task].status_code = 429
        /\ outcome[last.task].detail.kind = "status_and_remaining"
        /\ outcome[last.task].detail.code = 429
        /\ outcome[last.task].detail.remaining = last.remaining
        /\ Len(pages[last.task]) = Len(sent[last.task]) - 1

C5_Witness ==
    /\ last.event = "response"
    /\ last.status_code = 429
    /\ last.remaining = 1
    /\ Len(sent[last.task]) = 2

LastPage(t) == pages[t][Len(pages[t])]

\* C6: a 2xx response whose JSON body lacks the top-level data field makes
\* the operation fail with HTTPException carrying the response's status code.
C6_MissingDataIsMalformedPayload ==
    \A t \in Tasks :
        (Len(pages[t]) >= 1 /\ LastPage(t).json /\ ~LastPage(t).has_data) =>
            /\ pc[t] = "failed"
            /\ outcome[t].type = "HTTPException"
            /\ outcome[t].status_code = 200

\* C7: a 200 response whose body is not JSON makes the operation fail with
\* HTTPException carrying the response's status code, on any page.
C7_NonJsonIsMalformedPayload ==
    \A t \in Tasks :
        (Len(pages[t]) >= 1 /\ ~LastPage(t).json) =>
            /\ pc[t] = "failed"
            /\ outcome[t].type = "HTTPException"
            /\ outcome[t].status_code = 200
            /\ (last.task = t => outcome[t].status_code = last.status_code)
            /\ outcome[t].detail.kind = "JSONDecodeError"

C7_Witness ==
    \E t \in Tasks :
        /\ op[t].kind = "get_data"
        /\ Len(pages[t]) = 2
        /\ ~LastPage(t).json
        /\ pc[t] = "failed"

\* the request of task t that was answered last failed
FailedRequest(t) ==
    /\ last.task = t
    /\ \/ last.event = "RequestError"
       \/ last.event = "response" /\ ~(last.status_code \in 200..299)
       \/ /\ last.event = "response"
          /\ last.status_code \in 200..299
          /\ ~WellFormed(LastPage(t))

\* C8: when a request of a paginated operation fails, the operation ends
\* with an error and hands the caller none of the pages it had collected.
C8_NoPartialResult ==
    \A t \in Tasks :
        (op[t].kind = "get_data" /\ FailedRequest(t)) =>
            /\ pc[t] = "failed"
            /\ outcome[t].type \notin {"return", "none"}
            /\ outcome[t].value = <<>>

C8_Witness ==
    \E t \in Tasks :
        /\ op[t].kind = "get_data"
        /\ FailedRequest(t)
        /\ Len(sent[t]) = 3
        /\ Len(results[t]) = 2
        /\ pc[t] = "failed"

\* C9: a transport failure makes the operation fail with HTTPException(503),
\* and the operation issues no further request.
C9_TransportFailureIs503 ==
    /\ [](last.event = "RequestError" =>
            /\ pc[last.task] = "failed"
            /\ outcome[last.task].type = "HTTPException"
            /\ outcome[last.task].status_code = 503)
    /\ [][\A t \in Tasks :
            (last.task = t /\ last.event = "RequestError") =>
                (sent'[t] = sent[t] /\ pc'[t] = pc[t])]_vars

C9_Witness ==
    /\ last.event = "RequestError"
    /\ op[last.task].kind = "get_data"
    /\ Len(sent[last.task]) = 2
    /\ pc[last.task] = "failed"


Finished(t) == pc[t] \in {"done", "failed"}

OwnLimit(t) == limits[key_of(op[t].url, "GET")]

\* C11: whether and how long a request is suspended is decided by the
\* tracker state of its own key alone: with another key exhausted and its
\* own not, it is dispatched at once; and no step of another operation
\* moves the end of a wait.
C11_DelayDependsOnOwnKeyOnly ==
    [][\A t \in Tasks :
        /\ (pc[t] = "send" /\ pc'[t] # "send") =>
               IF OwnLimit(t).seen /\ OwnLimit(t).remaining = 0
               THEN /\ pc'[t] = "sleeping"
                    /\ wake'[t] = now + Max(OwnLimit(t).reset - now, 0) + 10
               ELSE /\ pc'[t] = "awaiting"
                    /\ sent'[t] = Append(sent[t], request[t])
        /\ (pc[t] = "sleeping" /\ pc'[t] = "sleeping") => wake'[t] = wake[t]]_vars

\* one operation waits on its exhausted key while the other, on another
\* key, has had its second request dispatched
C11_Witness ==
    \E t1, t2 \in Tasks :
        /\ op[t1].url.template # op[t2].url.template
        /\ pc[t1] = "sleeping"
        /\ OwnLimit(t1).remaining = 0
        /\ op[t2].kind = "get_data"
        /\ pc[t2] = "awaiting"
        /\ Len(sent[t2]) = 2


\* C12: a key for which no response has been observed has a non-throttling
\* state: the first request to it is dispatched by the request hook at
\* once, and the hook does not fail.
C12_UnseenKeyNotThrottled ==
    [][\A t \in Tasks :
        (pc[t] = "send" /\ pc'[t] # "send" /\ ~OwnLimit(t).seen) =>
            /\ get_limit(limits, op[t].url, "GET", now).remaining > 0
            /\ pc'[t] = "awaiting"
            /\ sent'[t] = Append(sent[t], request[t])
            /\ outcome'[t] = outcome[t]
            /\ now' = now]_vars

C12_Witness ==
    \E t \in Tasks :
        /\ pc[t] = "awaiting"
        /\ Len(sent[t]) = 1
        /\ ~OwnLimit(t).seen
        /\ now = 0


\* C13: within one operation the request for page N+1 is issued only after
\* the response for page N has been processed (decoded, its data appended),
\* whatever the other operation does; an operation has at most one request
\* in flight.
C13_PagesStrictlySequential ==
    \A t \in Tasks :
        op[t].kind = "get_data" =>
            /\ Len(sent[t]) - Len(pages[t]) \in {0, 1}
            /\ pc[t] \in {"send", "sleeping"} =>
                   /\ Len(pages[t]) = Len(sent[t])
                   /\ results[t] = Concat(PageData(t))
                   /\ Len(pages[t]) > 0 => request[t] = LastPage(t).next_token
            /\ pc[t] = "awaiting" =>
                   /\ Len(sent[t]) = Len(pages[t]) + 1
                   /\ results[t] = Concat(PageData(t))
                   /\ sent[t][Len(sent[t])] = request[t]

\* both operations have their second request in flight
C13_Witness ==
    \A t \in Tasks :
        /\ op[t].kind = "get_data"
        /\ pc[t] = "awaiting"
        /\ Len(sent[t]) = 2
        /\ Len(pages[t]) = 1
        /\ results[t] = <<[id |-> 1]>>


\* every page received so far decoded and carried a continuation token
TokenOnEveryPage(t) ==
    /\ Len(pages[t]) >= 1
    /\ \A i \in 1..Len(pages[t]) :
           WellFormed(pages[t][i]) /\ pages[t][i].next_token \in Tokens

\* the next request is ready and only the model's request bound holds it
AtRequestBound(t) ==
    /\ pc[t] = "send"
    /\ Len(sent[t]) = MaxRequests
    /\ TokenOnEveryPage(t)

\* C14: a paginated operation ends once the upstream returns a page
\* without token or an error; no page count stops it: as long as every
\* page carried a token the next request is due, however many pages came.
C14_EndsOnlyWhenUpstreamStops ==
    /\ [](\A t \in Tasks :
            (op[t].kind = "get_data" /\ TokenOnEveryPage(t)
                /\ Len(sent[t]) = Len(pages[t])) =>
                    /\ pc[t] = "send"
                    /\ request[t] = LastPage(t).next_token)
    /\ \A t \in Tasks :
           (op[t].kind = "get_data") ~> (Finished(t) \/ AtRequestBound(t))

C14_Witness ==
    \E t \in Tasks :
        /\ AtRequestBound(t)
        /\ Len(pages[t]) = MaxRequests
        /\ Len(pages[t]) >= 3


\* C15: when the rate-limit wait ends the suspended request is sent, once,
\* whatever the tracker says by then: no second look at the tracker, no
\* second sleep, no dropped request.
C15_DispatchedOnceAfterWait ==
    [][\A t \in Tasks :
        /\ (pc[t] = "sleeping" /\ pc'[t] # "sleeping") =>
               /\ pc'[t] = "awaiting"
               /\ sent'[t] = Append(sent[t], request[t])
               /\ Len(sent'[t]) = Len(sent[t]) + 1
               /\ limits' = limits
        /\ (pc[t] = "sleeping" /\ pc'[t] = "sleeping") =>
               /\ wake'[t] = wake[t]
               /\ sent'[t] = sent[t]
               /\ request'[t] = request[t]]_vars

\* sent after the wait although the tracker still shows no quota for the key
C15_Witness ==
    \E t \in Tasks :
        /\ pc[t] = "awaiting"
        /\ Len(sent[t]) = 2
        /\ OwnLimit(t).seen /\ OwnLimit(t).remaining = 0
        /\ \A u \in Tasks \ {t} : pc[u] = "idle"
        /\ now >= OwnLimit(t).reset + SafetyMargin


\* what the failed request of task t raised, as far as `last` records it
ErrorMatches(t, e) ==
    IF last.event = "RequestError"
    THEN e.type = "HTTPException" /\ e.status_code = ServiceUnavailable
    ELSE IF last.status_code = QuotaExceeded
    THEN /\ e.type = "HTTPException" /\ e.status_code = QuotaExceeded
         /\ e.detail.code = QuotaExceeded /\ e.detail.remaining = last.remaining
    ELSE IF ~(last.status_code \in 200..299)
    THEN /\ e.type = "HTTPException" /\ e.status_code = last.status_code
         /\ e.detail.url = op[t].url
    ELSE IF ~LastPage(t).json
    THEN e.type = "HTTPException" /\ e.status_code = last.status_code
    ELSE e.type = "KeyError"

\* C16: once a request of an operation has ended in an error (quota
\* exceeded, other non-2xx status, malformed payload, transport failure) the
\* operation has failed with that error and sends nothing more; a failed
\* operation stays failed with the same error.
C16_ErrorEndsOperation ==
    /\ [](\A t \in Tasks :
            FailedRequest(t) =>
                /\ pc[t] = "failed"
                /\ ErrorMatches(t, outcome[t])
                /\ outcome[t].value = <<>>)
    /\ [][\A t \in Tasks :
            pc[t] = "failed" =>
                /\ pc'[t] = "failed"
                /\ sent'[t] = sent[t]
                /\ outcome'[t] = outcome[t]
                /\ wake'[t] = wake[t]]_vars

\* a server error on the second page, after one page was collected
C16_Witness ==
    \E t \in Tasks :
        /\ op[t].kind = "get_data"
        /\ FailedRequest(t)
        /\ last.status_code = 500
        /\ Len(sent[t]) = 2
        /\ Len(results[t]) >= 1
        /\ now > 0


\* C17: a continuation token stays inside the operation that received it:
\* the first request of every operation carries no token, and request i+1
\* carries the token of page i of the same operation, however the
\* operations interleave.
C17_TokenStaysInOperation ==
    \A t \in Tasks :
        (op[t].kind = "get_data" /\ Len(sent[t]) >= 1) =>
            /\ sent[t][1] = NoneToken
            /\ \A i \in 1..(Len(sent[t]) - 1) :
                   /\ i <= Len(pages[t])
                   /\ pages[t][i].next_token \in Tokens
                   /\ sent[t][i + 1] = pages[t][i].next_token

\* two operations on the same endpoint, interleaved, each following its own token
C17_Witness ==
    \E t1, t2 \in Tasks :
        /\ t1 # t2
        /\ op[t1].kind = "get_data" /\ op[t2].kind = "get_data"
        /\ op[t1].url = op[t2].url
        /\ sent[t1] = <<NoneToken, "a">>
        /\ sent[t2] = <<NoneToken, "b">>
        /\ pc[t1] = "awaiting" /\ pc[t2] = "awaiting"


Cancelled(t) == last.task = t /\ last.event = "cancelled"

\* C18: a task cancelled in the rate-limit wait or while it awaits a
\* response ends its operation with the cancellation: the caller gets no
\* page data, not even of the pages already received, and no request follows.
C18_CancelAbandonsOperation ==
    [][\A t \in Tasks :
        /\ (pc[t] \in {"sleeping", "awaiting"} /\ Cancelled(t)') =>
               /\ pc'[t] = "failed"
               /\ outcome'[t].type = "CancelledError"
               /\ outcome'[t].value = <<>>
               /\ sent'[t] = sent[t]
        /\ Cancelled(t) =>
               /\ Cancelled(t)'
               /\ pc'[t] = "failed"
               /\ outcome'[t] = outcome[t]
               /\ sent'[t] = sent[t]
               /\ limits' = limits]_vars

\* cancelled in the wait before the second page, one page already collected
C18_Witness ==
    \E t \in Tasks :
        /\ Cancelled(t)
        /\ op[t].kind = "get_data"
        /\ wake[t] > 0
        /\ Len(sent[t]) = 1
        /\ Len(results[t]) >= 1
        /\ outcome[t].type = "CancelledError"


\* the last thing that happened is a 2xx page of task t that continues
PageJustHandedOver(t) ==
    /\ op[t].kind = "get_data"
    /\ pc[t] = "send"
    /\ line[t] = 154
    /\ last.task = t
    /\ last.event = "response"

\* C19: the tracker is written from a 2xx response before get_data sees
\* that response, so the check made for page N+1 reads the headers of page
\* N or something newer; when page N reported remaining = 0 and no other
\* response came in between, the request for page N+1 is delayed.
C19_NextPageSeesOwnHeaders ==
    /\ [](\A t \in Tasks :
            PageJustHandedOver(t) =>
                OwnLimit(t) = [seen |-> TRUE, remaining |-> last.remaining,
                               reset |-> last.reset])
    /\ [][\A t \in Tasks :
            (PageJustHandedOver(t) /\ last.remaining = 0 /\ pc'[t] # "send") =>
                /\ pc'[t] = "sleeping"
                /\ sent'[t] = sent[t]
                /\ wake'[t] >= now + SafetyMargin]_vars

\* page 1 reported remaining = 0 and the request for page 2 waits
C19_Witness ==
    \E t \in Tasks :
        /\ op[t].kind = "get_data"
        /\ pc[t] = "sleeping"
        /\ line[t] = 154
        /\ last.task = t /\ last.event = "response" /\ last.remaining = 0
        /\ Len(sent[t]) = 1 /\ Len(pages[t]) = 1
        /\ \E u \in Tasks \ {t} : op[u].kind = "get_data" /\ op[u].url = op[t].url


EmptyTokens == {"", "<null>", "<absent>"}

\* C20: a page whose next_token is absent, null or "" is the last one: the
\* operation returns there and never sends an empty pagination_token; a
\* page with a non-empty token is followed by the request for that token,
\* whether or not the page carried data.
C20_EmptyTokenEndsPagination ==
    \A t \in Tasks :
        op[t].kind = "get_data" =>
            /\ \A i \in 1..Len(sent[t]) : sent[t][i] \notin EmptyTokens
            /\ request[t] \notin EmptyTokens
            /\ (Len(pages[t]) >= 1 /\ WellFormed(LastPage(t))) =>
                   IF LastPage(t).next_token \in EmptyTokens
                   THEN /\ pc[t] = "done"
                        /\ Len(sent[t]) = Len(pages[t])
                        /\ outcome[t] = Returned(Concat(PageData(t)), 0)
                   ELSE /\ pc[t] # "done"
                        /\ request[t] = LastPage(t).next_token
                        /\ \/ Len(sent[t]) = Len(pages[t]) /\ pc[t] \in {"send", "sleeping"}
                           \/ /\ Len(sent[t]) = Len(pages[t]) + 1
                              /\ sent[t][Len(sent[t])] = LastPage(t).next_token

\* an empty page with a token was followed up, and a page with "" ended the run
C20_Witness ==
    \E t \in Tasks :
        /\ op[t].kind = "get_data"
        /\ Len(pages[t]) = 2
        /\ pages[t][1].data = <<>> /\ pages[t][1].next_token = "a"
        /\ pages[t][2].has_data /\ pages[t][2].next_token = ""
        /\ sent[t] = <<NoneToken, "a">>
        /\ pc[t] = "done"

====
